---- MODULE Spec2Model ----
(***************************************************************************)
(* Model of the task-tracking backend (FastAPI + SQLAlchemy): the users    *)
(* and tasks tables, the repositories, the User / Task / Auth services,    *)
(* the token service and the route layer's authentication dependency.      *)
(*                                                                         *)
(* A handler is an operator from the database (and its arguments) to a     *)
(* record [db, outcome, ret, calls]: the database afterwards, the          *)
(* exception that escaped ("ok" when none did), the value returned and the *)
(* repository / service methods it invoked.  The actions apply the         *)
(* handlers to the state; the properties quantify over their arguments.    *)
(***************************************************************************)
EXTENDS Integers, Sequences, FiniteSets, TLC

VARIABLES users, tasks, userSeq, taskSeq, now, issued, res, requests

vars == <<users, tasks, userSeq, taskSeq, now, issued, res, requests>>

(***************************************************************************)
(* Bounds of the model.                                                    *)
(***************************************************************************)
\* ids the users.id sequence hands out before the model stops creating users
MaxUserId == 2
\* ids the tasks.id sequence hands out before the model stops creating tasks
MaxTaskId == 2
\* clock advances
MaxTicks == 2
\* tokens clients hold at once
MaxIssued == 2
\* requests in flight at once
MaxRequests == 2

(***************************************************************************)
(* Input domains.                                                          *)
(***************************************************************************)
None == "<None>"
\* Optional[int]: <<>> for None, <<n>> for the integer n
NoInt == <<>>

Usernames == {"alice", "bob"}
Emails == {"alice@x.com", "bob@x.com"}
Passwords == {"password123", "wrongpass"}
Salts == {"salt1", "salt2"}
Titles == {"Buy milk", "Walk dog"}
Descriptions == {None, "2 litres"}

\* TaskStatus
PENDING == "pending"
IN_PROGRESS == "in_progress"
DONE == "done"
TaskStatus == {PENDING, IN_PROGRESS, DONE}

UserIds == 1..MaxUserId
TaskIds == 1..MaxTaskId

\* TaskCreate: title required, description optional
TaskCreate == [title : Titles, description : Descriptions]
\* TaskUpdate: every field optional, None when not provided
TaskUpdate == [title : Titles \cup {None},
               description : Descriptions,
               status : TaskStatus \cup {None}]

DB == [users |-> users, tasks |-> tasks, userSeq |-> userSeq, taskSeq |-> taskSeq]

Result(db, outcome, ret, calls) ==
    [db |-> db, outcome |-> outcome, ret |-> ret, calls |-> calls]

(***************************************************************************)
(* TaskRepository                                                          *)
(***************************************************************************)
TaskRepository_get_dto(instance) ==
    [id |-> instance.id, title |-> instance.title,
     description |-> instance.description, status |-> instance.status,
     owner_id |-> instance.owner_id]

\* INSERT INTO tasks: id from the sequence, status from the column default,
\* owner_id checked against users.id (ForeignKey("users.id")).
TaskRepository_create(D, entity) ==
    LET instance == [id |-> D.taskSeq, title |-> entity.title,
                     description |-> entity.description, status |-> PENDING,
                     owner_id |-> entity.owner_id]
    IN IF \E u \in D.users : u.id = entity.owner_id
       THEN Result([D EXCEPT !.tasks = @ \cup {instance}, !.taskSeq = @ + 1],
                   "ok", TaskRepository_get_dto(instance),
                   <<"TaskRepository.create">>)
       ELSE Result([D EXCEPT !.taskSeq = @ + 1], "IntegrityError", None,
                   <<"TaskRepository.create">>)

TaskRepository_get_by_id(D, task_id) ==
    LET found == {t \in D.tasks : t.id = task_id}
    IN IF found = {}
       THEN Result(D, "TaskNotFound", None, <<"TaskRepository.get_by_id">>)
       ELSE Result(D, "ok", TaskRepository_get_dto(CHOOSE t \in found : TRUE),
                   <<"TaskRepository.get_by_id">>)

\* Faulty variant: the status filter is never applied.
TaskRepository_get_all_for_user_unfiltered(D, owner_id, status) ==
    Result(D, "ok",
           {TaskRepository_get_dto(t) : t \in {t \in D.tasks : t.owner_id = owner_id}},
           <<"TaskRepository.get_all_for_user">>)

\* Faulty variant: the owner is not part of the WHERE clause.
TaskRepository_get_all_for_user_any_owner(D, owner_id, status) ==
    Result(D, "ok",
           {TaskRepository_get_dto(t) :
               t \in IF status # None THEN {t \in D.tasks : t.status = status}
                     ELSE D.tasks},
           <<"TaskRepository.get_all_for_user">>)

\* The rows come back in no particular order: the list is modelled as a set.
TaskRepository_get_all_for_user(D, owner_id, status) ==
    LET byOwner == {t \in D.tasks : t.owner_id = owner_id}
        rows == IF status # None
                THEN {t \in byOwner : t.status = status}
                ELSE byOwner
    IN Result(D, "ok", {TaskRepository_get_dto(t) : t \in rows},
              <<"TaskRepository.get_all_for_user">>)

\* Faulty variant: the row is matched by id alone and takes the caller as
\* its owner.
TaskRepository_update_reassigns(D, task_id, user_id, dto) ==
    LET hit == {t \in D.tasks : t.id = task_id}
        new(t) == [t EXCEPT !.title = dto.title,
                            !.description = dto.description,
                            !.status = dto.status,
                            !.owner_id = user_id]
    IN IF hit = {}
       THEN Result(D, "TaskNotFound", None, <<"TaskRepository.update">>)
       ELSE IF dto.title = None \/ dto.status = None
       THEN Result(D, "IntegrityError", None, <<"TaskRepository.update">>)
       ELSE Result([D EXCEPT !.tasks = (@ \ hit) \cup {new(t) : t \in hit}],
                   "ok", TaskRepository_get_dto(new(CHOOSE t \in hit : TRUE)),
                   <<"TaskRepository.update">>)

\* UPDATE tasks SET <every field of the dto> WHERE id AND owner_id RETURNING:
\* model_dump() carries the fields left at None too, and title and status
\* are NOT NULL columns.
TaskRepository_update(D, task_id, user_id, dto) ==
    LET hit == {t \in D.tasks : t.id = task_id /\ t.owner_id = user_id}
        new(t) == [t EXCEPT !.title = dto.title,
                            !.description = dto.description,
                            !.status = dto.status]
    IN IF hit = {}
       THEN Result(D, "TaskNotFound", None, <<"TaskRepository.update">>)
       ELSE IF dto.title = None \/ dto.status = None
       THEN Result(D, "IntegrityError", None, <<"TaskRepository.update">>)
       ELSE Result([D EXCEPT !.tasks = (@ \ hit) \cup {new(t) : t \in hit}],
                   "ok", TaskRepository_get_dto(new(CHOOSE t \in hit : TRUE)),
                   <<"TaskRepository.update">>)

\* Faulty variant: the id is not part of the WHERE clause.
TaskRepository_delete_all_of_owner(D, task_id, user_id) ==
    Result([D EXCEPT !.tasks = {t \in @ : t.owner_id # user_id}],
           "ok", None, <<"TaskRepository.delete">>)

TaskRepository_delete(D, task_id, user_id) ==
    Result([D EXCEPT !.tasks = {t \in @ : ~(t.id = task_id /\ t.owner_id = user_id)}],
           "ok", None, <<"TaskRepository.delete">>)

(***************************************************************************)
(* TaskService                                                             *)
(***************************************************************************)
\* Faulty variant: the owner_id comparison is missing.
TaskService_get_and_verify_unchecked(D, task_id, user_id) ==
    TaskRepository_get_by_id(D, task_id)

\* Faulty variant: the owner_id comparison does not wait for the fetch, and
\* a task that is not stored is reported as forbidden.
TaskService_get_and_verify_compare_first(D, task_id, user_id) ==
    LET task == TaskRepository_get_by_id(D, task_id)
    IN IF task.outcome # "ok" \/ task.ret.owner_id # user_id
       THEN Result(D, "TaskAccessForbidden", None, task.calls)
       ELSE task

TaskService_get_and_verify(D, task_id, user_id) ==
    LET task == TaskRepository_get_by_id(D, task_id)
    IN IF task.outcome # "ok" THEN task
       ELSE IF task.ret.owner_id # user_id
       THEN Result(D, "TaskAccessForbidden", None, task.calls)
       ELSE task

TaskService_get_tasks_for_user(D, user_id, status) ==
    TaskRepository_get_all_for_user(D, user_id, status)

TaskService_get_task_by_id_for_user(D, task_id, user_id) ==
    TaskService_get_and_verify(D, task_id, user_id)

\* Faulty variant: the description is not copied into the entity.
TaskService_create_task_for_user_no_description(D, dto, user_id) ==
    TaskRepository_create(D, [owner_id |-> user_id, title |-> dto.title,
                              description |-> None])

TaskService_create_task_for_user(D, dto, user_id) ==
    LET entity == [owner_id |-> user_id, title |-> dto.title,
                   description |-> dto.description]
    IN TaskRepository_create(D, entity)

\* repo.update(task_id, task_update) binds task_update to user_id and leaves
\* the required parameter dto unbound: the call raises TypeError before the
\* repository method's body runs.
TaskService_update_task(D, task_id, task_update, user_id) ==
    LET v == TaskService_get_and_verify(D, task_id, user_id)
    IN IF v.outcome # "ok" THEN v
       ELSE Result(D, "TypeError", None, v.calls)

\* repo.delete(task_id) leaves the required parameter user_id unbound: TypeError.
TaskService_delete_task(D, task_id, user_id) ==
    LET v == TaskService_get_and_verify(D, task_id, user_id)
    IN IF v.outcome # "ok" THEN v
       ELSE Result(D, "TypeError", None, v.calls)

\* The two awaits of update_task and delete_task are separate steps of a
\* request: _get_and_verify, then the repository call, which fails in the
\* call itself (TypeError) and so never reaches the database.
TaskService_update_task_repo_call(D, task_id, task_update) ==
    Result(D, "TypeError", None, <<>>)

TaskService_delete_task_repo_call(D, task_id) ==
    Result(D, "TypeError", None, <<>>)

(***************************************************************************)
(* PasswordService (passlib bcrypt)                                        *)
(***************************************************************************)
\* The digest embeds the salt drawn for the call; it is never the plaintext.
PasswordService_get_password_hash(password, salt) ==
    [scheme |-> "bcrypt", salt |-> salt, digest |-> <<salt, password>>]

\* Re-hash the attempt with the salt embedded in the stored digest.
PasswordService_verify_password(plain_password, hashed_password) ==
    PasswordService_get_password_hash(plain_password, hashed_password.salt)
        = hashed_password

(***************************************************************************)
(* UserRepository                                                          *)
(***************************************************************************)
UserRepository_get_dto(instance) ==
    [id |-> instance.id, username |-> instance.username,
     email |-> instance.email, hashed_password |-> instance.hashed_password]

\* Faulty variant: only the email column is unique.
UserRepository_create_email_only(D, user) ==
    LET instance == [id |-> D.userSeq, username |-> user.username,
                     email |-> user.email,
                     hashed_password |-> user.hashed_password]
    IN IF \E u \in D.users : u.email = instance.email
       THEN Result([D EXCEPT !.userSeq = @ + 1], "UserAlreadyExists", None,
                   <<"UserRepository.create">>)
       ELSE Result([D EXCEPT !.users = @ \cup {instance}, !.userSeq = @ + 1],
                   "ok", instance, <<"UserRepository.create">>)

\* Faulty variant: only the username column is unique.
UserRepository_create_username_only(D, user) ==
    LET instance == [id |-> D.userSeq, username |-> user.username,
                     email |-> user.email,
                     hashed_password |-> user.hashed_password]
    IN IF \E u \in D.users : u.username = instance.username
       THEN Result([D EXCEPT !.userSeq = @ + 1], "UserAlreadyExists", None,
                   <<"UserRepository.create">>)
       ELSE Result([D EXCEPT !.users = @ \cup {instance}, !.userSeq = @ + 1],
                   "ok", instance, <<"UserRepository.create">>)

\* INSERT INTO users: username and email are unique columns; the id is drawn
\* from the sequence before the constraint is checked, so a rejected insert
\* still consumes it.  IntegrityError -> rollback -> UserAlreadyExists.
UserRepository_create(D, user) ==
    LET instance == [id |-> D.userSeq, username |-> user.username,
                     email |-> user.email,
                     hashed_password |-> user.hashed_password]
    IN IF \E u \in D.users : u.username = instance.username \/ u.email = instance.email
       THEN Result([D EXCEPT !.userSeq = @ + 1], "UserAlreadyExists", None,
                   <<"UserRepository.create">>)
       ELSE Result([D EXCEPT !.users = @ \cup {instance}, !.userSeq = @ + 1],
                   "ok", UserRepository_get_dto(instance),
                   <<"UserRepository.create">>)

UserRepository_get(D, pk) ==
    LET found == {u \in D.users : u.id = pk}
    IN IF found = {}
       THEN Result(D, "UserNotFound", None, <<"UserRepository.get">>)
       ELSE Result(D, "ok", UserRepository_get_dto(CHOOSE u \in found : TRUE),
                   <<"UserRepository.get">>)

\* UserFindDTO: the fields left at None are dropped from the filter
\* (model_dump(exclude_none=True)); scalar_one_or_none() on the rows left.
UserRepository_find(D, dto) ==
    LET found == {u \in D.users :
                     /\ (dto.id # NoInt => u.id = dto.id[1])
                     /\ (dto.username # None => u.username = dto.username)
                     /\ (dto.email # None => u.email = dto.email)}
    IN IF found = {}
       THEN Result(D, "UserNotFound", None, <<"UserRepository.find">>)
       ELSE IF Cardinality(found) > 1
       THEN Result(D, "MultipleResultsFound", None, <<"UserRepository.find">>)
       ELSE Result(D, "ok", UserRepository_get_dto(CHOOSE u \in found : TRUE),
                   <<"UserRepository.find">>)

\* SELECT ... OFFSET offset LIMIT limit, without ORDER BY: order is the
\* order the store happens to return the rows in.  The store refuses a
\* negative LIMIT or OFFSET (DBAPIError).
UserRepository_get_list(D, limit, offset, order) ==
    LET n == Len(order)
        from == IF offset = NoInt THEN 1 ELSE offset[1] + 1
        to == IF limit = NoInt THEN n
              ELSE IF from + limit[1] - 1 < n THEN from + limit[1] - 1 ELSE n
    IN IF (limit # NoInt /\ limit[1] < 0) \/ (offset # NoInt /\ offset[1] < 0)
       THEN Result(D, "DBAPIError", None, <<"UserRepository.get_list">>)
       ELSE Result(D, "ok",
                   [i \in 1..(IF to - from + 1 > 0 THEN to - from + 1 ELSE 0) |->
                       UserRepository_get_dto(order[from + i - 1])],
                   <<"UserRepository.get_list">>)

\* Faulty variant: the users table has no unique constraints.
UserRepository_update_no_unique(D, pk, dto) ==
    LET hit == {u \in D.users : u.id = pk}
        new(u) == [u EXCEPT
                     !.username = IF dto.username # None THEN dto.username ELSE @,
                     !.email = IF dto.email # None THEN dto.email ELSE @]
    IN IF dto.password # None
       THEN Result(D, "CompileError", None, <<"UserRepository.update">>)
       ELSE IF dto.username = None /\ dto.email = None
       THEN Result(D, "ProgrammingError", None, <<"UserRepository.update">>)
       ELSE IF hit = {}
       THEN Result(D, "UserNotFound", None, <<"UserRepository.update">>)
       ELSE Result([D EXCEPT !.users = (@ \ hit) \cup {new(u) : u \in hit}],
                   "ok", UserRepository_get_dto(new(CHOOSE u \in hit : TRUE)),
                   <<"UserRepository.update">>)

\* UPDATE users SET <the fields of the dto that are not None> WHERE id
\* RETURNING.  "password" is no column of users (CompileError); a statement
\* with nothing to set is rejected by the store (ProgrammingError); a
\* username or email held by another row violates the unique constraint and
\* the IntegrityError is not caught.
UserRepository_update(D, pk, dto) ==
    LET hit == {u \in D.users : u.id = pk}
        new(u) == [u EXCEPT
                     !.username = IF dto.username # None THEN dto.username ELSE @,
                     !.email = IF dto.email # None THEN dto.email ELSE @]
        clash == \E u \in hit : \E o \in D.users \ hit :
                    new(u).username = o.username \/ new(u).email = o.email
    IN IF dto.password # None
       THEN Result(D, "CompileError", None, <<"UserRepository.update">>)
       ELSE IF dto.username = None /\ dto.email = None
       THEN Result(D, "ProgrammingError", None, <<"UserRepository.update">>)
       ELSE IF hit = {}
       THEN Result(D, "UserNotFound", None, <<"UserRepository.update">>)
       ELSE IF clash
       THEN Result(D, "IntegrityError", None, <<"UserRepository.update">>)
       ELSE Result([D EXCEPT !.users = (@ \ hit) \cup {new(u) : u \in hit}],
                   "ok", UserRepository_get_dto(new(CHOOSE u \in hit : TRUE)),
                   <<"UserRepository.update">>)

\* session.delete(instance): the unit of work first detaches the rows of the
\* tasks relationship (no delete cascade, no passive_deletes) by setting their
\* owner_id to NULL, which the NOT NULL column rejects.
UserRepository_delete(D, pk) ==
    LET hit == {u \in D.users : u.id = pk}
    IN IF hit = {}
       THEN Result(D, "UserNotFound", None, <<"UserRepository.delete">>)
       ELSE IF \E t \in D.tasks : t.owner_id = pk
       THEN Result(D, "IntegrityError", None, <<"UserRepository.delete">>)
       ELSE Result([D EXCEPT !.users = @ \ hit], "ok", None,
                   <<"UserRepository.delete">>)

(***************************************************************************)
(* UserService                                                             *)
(***************************************************************************)
\* salt: the salt bcrypt draws for this call
UserService_create_user(D, dto, salt) ==
    LET hashed_password == PasswordService_get_password_hash(dto.password, salt)
        user_entity == [id |-> NoInt, email |-> dto.email,
                        username |-> dto.username,
                        hashed_password |-> hashed_password]
    IN UserRepository_create(D, user_entity)

UserService_get_user_by_id(D, user_id) == UserRepository_get(D, user_id)

\* Faulty variant: only the limit is validated.
UserService_get_all_users_limit_only(D, limit, offset, order) ==
    IF limit # NoInt /\ limit[1] < 0
    THEN Result(D, "PaginationError", None, <<>>)
    ELSE UserRepository_get_list(D, limit, offset, order)

UserService_get_all_users(D, limit, offset, order) ==
    IF (limit # NoInt /\ limit[1] < 0) \/ (offset # NoInt /\ offset[1] < 0)
    THEN Result(D, "PaginationError", None, <<>>)
    ELSE UserRepository_get_list(D, limit, offset, order)

UserService_find_user(D, dto) == UserRepository_find(D, dto)

UserService_update_user(D, pk, dto) == UserRepository_update(D, pk, dto)

UserService_delete_user(D, pk) == UserRepository_delete(D, pk)

(***************************************************************************)
(* str(int) and int(str) on subjects.  A str is a sequence of characters.  *)
(***************************************************************************)
Digit == <<"0", "1", "2", "3", "4", "5", "6", "7", "8", "9">>

RECURSIVE str(_)
str(n) ==
    IF n < 0 THEN <<"-">> \o str(0 - n)
    ELSE IF n < 10 THEN <<Digit[n + 1]>>
    ELSE Append(str(n \div 10), Digit[(n % 10) + 1])

IsDigit(c) == \E d \in 1..10 : Digit[d] = c
DigitValue(c) == (CHOOSE d \in 1..10 : Digit[d] = c) - 1

RECURSIVE DigitsValue(_)
DigitsValue(s) ==
    IF s = <<>> THEN 0
    ELSE 10 * DigitsValue(SubSeq(s, 1, Len(s) - 1)) + DigitValue(s[Len(s)])

\* int(s): [ok |-> TRUE, value |-> n], or [ok |-> FALSE] for ValueError
int(s) ==
    LET signed == Len(s) > 0 /\ s[1] \in {"-", "+"}
        body == IF signed THEN Tail(s) ELSE s
    IN IF body # <<>> /\ \A i \in 1..Len(body) : IsDigit(body[i])
       THEN [ok |-> TRUE,
             value |-> IF signed /\ s[1] = "-" THEN 0 - DigitsValue(body)
                       ELSE DigitsValue(body)]
       ELSE [ok |-> FALSE]

(***************************************************************************)
(* auth_config and TokenService (python-jose).  Time is in minutes.        *)
(***************************************************************************)
secret_key == "SECRET_KEY"
access_token_expire_minutes == 30
refresh_token_expire_days == 7
MinutesPerDay == 1440

\* jwt.encode: the signature binds the claims to the key
jwt_encode(claims, key) ==
    [segments |-> 3, claims |-> claims, signature |-> <<key, claims>>]

\* A JSON value of a claim: a string is its sequence of characters, a number
\* is tagged.
JsonNumber(n) == <<"number">> \o str(n)
IsStr(v) == \A i \in DOMAIN v : v[i] # "number"

\* Faulty variant: the sub claim is not validated.
jwt_decode_no_sub_validation(token, key, t) ==
    IF token.segments # 3 THEN [ok |-> FALSE]
    ELSE IF token.signature # <<key, token.claims>> THEN [ok |-> FALSE]
    ELSE IF token.claims.exp < t THEN [ok |-> FALSE]
    ELSE [ok |-> TRUE, payload |-> token.claims]

\* Faulty variant: the exp claim is not validated.
jwt_decode_no_exp_validation(token, key, t) ==
    IF token.segments # 3 THEN [ok |-> FALSE]
    ELSE IF token.signature # <<key, token.claims>> THEN [ok |-> FALSE]
    ELSE IF token.claims.has_sub /\ ~IsStr(token.claims.sub) THEN [ok |-> FALSE]
    ELSE [ok |-> TRUE, payload |-> token.claims]

\* jwt.decode: [ok |-> TRUE, payload |-> claims], or [ok |-> FALSE] for every
\* JWTError (malformed token, bad signature, exp in the past, a sub claim
\* that is no string)
jwt_decode(token, key, t) ==
    IF token.segments # 3 THEN [ok |-> FALSE]
    ELSE IF token.signature # <<key, token.claims>> THEN [ok |-> FALSE]
    ELSE IF token.claims.exp < t THEN [ok |-> FALSE]
    ELSE IF token.claims.has_sub /\ ~IsStr(token.claims.sub) THEN [ok |-> FALSE]
    ELSE [ok |-> TRUE, payload |-> token.claims]

\* data: [has_sub, sub], the dict {"sub": sub} or {}
TokenService_create_access_token(data, t) ==
    LET expire == t + access_token_expire_minutes
        to_encode == [has_sub |-> data.has_sub, sub |-> data.sub, exp |-> expire]
    IN jwt_encode(to_encode, secret_key)

\* Faulty variant: the refresh token gets the access token's lifetime.
TokenService_create_refresh_token_short(data, t) ==
    jwt_encode([has_sub |-> data.has_sub, sub |-> data.sub,
                exp |-> t + access_token_expire_minutes], secret_key)

TokenService_create_refresh_token(data, t) ==
    LET expire == t + refresh_token_expire_days * MinutesPerDay
        to_encode == [has_sub |-> data.has_sub, sub |-> data.sub, exp |-> expire]
    IN jwt_encode(to_encode, secret_key)

\* TokenPayloadDTO [has_sub, sub] (sub: str | None = None); invalid for the
\* None returned on JWTError; raised names the exception that leaves the
\* method: TokenPayloadDTO(**payload) raises ValidationError for a sub that
\* is no string, and only JWTError is caught.
TokenService_verify_token(token, t) ==
    LET d == jwt_decode(token, secret_key, t)
    IN IF ~d.ok
       THEN [raised |-> None, invalid |-> TRUE, has_sub |-> FALSE, sub |-> <<>>]
       ELSE IF d.payload.has_sub /\ ~IsStr(d.payload.sub)
       THEN [raised |-> "ValidationError", invalid |-> TRUE, has_sub |-> FALSE,
             sub |-> <<>>]
       ELSE [raised |-> None, invalid |-> FALSE, has_sub |-> d.payload.has_sub,
             sub |-> d.payload.sub]

Sub(user_id) == [has_sub |-> TRUE, sub |-> str(user_id)]

TokenDTO(access_token, refresh_token) ==
    [access_token |-> access_token, refresh_token |-> refresh_token,
     token_type |-> "bearer"]

(***************************************************************************)
(* AuthService                                                             *)
(***************************************************************************)
AuthService_register(D, dto, salt, t) ==
    LET user_create_dto == [username |-> dto.username, email |-> dto.email,
                            password |-> dto.password]
        new_user == UserService_create_user(D, user_create_dto, salt)
        calls == <<"UserService.create_user">> \o new_user.calls
    IN IF new_user.outcome # "ok"
       THEN Result(new_user.db, new_user.outcome, new_user.ret, calls)
       ELSE Result(new_user.db, "ok",
                   TokenDTO(TokenService_create_access_token(Sub(new_user.ret.id), t),
                            TokenService_create_refresh_token(Sub(new_user.ret.id), t)),
                   calls)

\* Faulty variant: a wrong password raises an exception of its own.
AuthService_login_distinct_error(D, dto, t) ==
    LET user == UserService_find_user(D,
                    [id |-> NoInt, username |-> dto.username, email |-> None])
        calls == <<"UserService.find_user">> \o user.calls
    IN IF user.outcome # "ok"
       THEN Result(D, user.outcome, user.ret, calls)
       ELSE IF ~PasswordService_verify_password(dto.password, user.ret.hashed_password)
       THEN Result(D, "InvalidCredentials", "Incorrect password", calls)
       ELSE Result(D, "ok",
                   TokenDTO(TokenService_create_access_token([has_sub |-> TRUE, sub |-> str(user.ret.id)], t),
                            TokenService_create_refresh_token([has_sub |-> TRUE, sub |-> str(user.ret.id)], t)),
                   calls)

\* A failed lookup raises UserNotFound without a message, a failed password
\* check raises UserNotFound("Incorrect username or password"): ret carries
\* the exception's message.
AuthService_login(D, dto, t) ==
    LET find_dto == [id |-> NoInt, username |-> dto.username, email |-> None]
        user == UserService_find_user(D, find_dto)
        calls == <<"UserService.find_user">> \o user.calls
    IN IF user.outcome # "ok"
       THEN Result(D, user.outcome, user.ret, calls)
       ELSE IF ~PasswordService_verify_password(dto.password, user.ret.hashed_password)
       THEN Result(D, "UserNotFound", "Incorrect username or password", calls)
       ELSE Result(D, "ok",
                   TokenDTO(TokenService_create_access_token(Sub(user.ret.id), t),
                            TokenService_create_refresh_token(Sub(user.ret.id), t)),
                   calls)

(***************************************************************************)
(* Route layer: exception handlers, the bearer dependency, the routers.    *)
(***************************************************************************)
NotFound == {"UserNotFound", "TaskNotFound"}
AlreadyExists == {"UserAlreadyExists"}
AccessForbidden == {"TaskAccessForbidden", "UserAccessForbidden"}

HTTPException(status_code, detail, calls, db) ==
    Result(db, "HTTPException", [status_code |-> status_code, detail |-> detail], calls)

\* The response a route's result is answered with: the route's own status on
\* success, the HTTPException's, the registered handler's, or 500.
Response(r, success_status) ==
    IF r.outcome = "ok"
    THEN [status_code |-> success_status, detail |-> None]
    ELSE IF r.outcome = "HTTPException"
    THEN [status_code |-> r.ret.status_code, detail |-> r.ret.detail]
    ELSE IF r.outcome \in NotFound
    THEN [status_code |-> 404, detail |-> "The requested resource was not found."]
    ELSE IF r.outcome \in AlreadyExists
    THEN [status_code |-> 409,
          detail |-> "A resource with the same unique identifier already exists."]
    ELSE IF r.outcome \in AccessForbidden
    THEN [status_code |-> 403,
          detail |-> "You do not have permission to perform this action."]
    ELSE IF r.outcome = "PaginationError"
    THEN [status_code |-> 400,
          detail |-> "Pagination limit and offset must be non-negative."]
    ELSE [status_code |-> 500, detail |-> "Internal Server Error"]

\* A request without an Authorization: Bearer header
NoToken == [segments |-> 0]

\* Faulty variant: a payload without a subject is not rejected, and
\* int(None) raises TypeError, which the except clause does not catch.
get_current_user_no_sub_check(D, token, t) ==
    LET payload == TokenService_verify_token(token, t)
    IN IF token = NoToken
       THEN Result(D, "HTTPException",
                   [status_code |-> 401, detail |-> "Not authenticated"], <<>>)
       ELSE IF payload.raised # None
       THEN Result(D, payload.raised, None, <<>>)
       ELSE IF payload.invalid
       THEN Result(D, "HTTPException",
                   [status_code |-> 401, detail |-> "Could not validate credentials"], <<>>)
       ELSE IF ~payload.has_sub
       THEN Result(D, "TypeError", None, <<>>)
       ELSE LET user_id == int(payload.sub)
            IN IF ~user_id.ok
               THEN Result(D, "HTTPException",
                           [status_code |-> 401, detail |-> "Could not validate credentials"], <<>>)
               ELSE LET user == UserRepository_find(D,
                                    [id |-> <<user_id.value>>, username |-> None,
                                     email |-> None])
                    IN IF user.outcome = "UserNotFound"
                       THEN Result(D, "HTTPException",
                                   [status_code |-> 401, detail |-> "Could not validate credentials"],
                                   user.calls)
                       ELSE user

\* Faulty variant: UserNotFound is not caught and reaches the NotFound
\* handler.
get_current_user_not_found_escapes(D, token, t) ==
    LET payload == TokenService_verify_token(token, t)
    IN IF token = NoToken
       THEN HTTPException(401, "Not authenticated", <<>>, D)
       ELSE IF payload.raised # None
       THEN Result(D, payload.raised, None, <<>>)
       ELSE IF payload.invalid \/ ~payload.has_sub
       THEN HTTPException(401, "Could not validate credentials", <<>>, D)
       ELSE LET user_id == int(payload.sub)
            IN IF ~user_id.ok
               THEN HTTPException(401, "Could not validate credentials", <<>>, D)
               ELSE UserRepository_find(D, [id |-> <<user_id.value>>,
                                            username |-> None, email |-> None])

\* get_current_user behind oauth2_scheme (OAuth2PasswordBearer)
get_current_user(D, token, t) ==
    LET credentials_exception(calls) ==
            HTTPException(401, "Could not validate credentials", calls, D)
        payload == TokenService_verify_token(token, t)
    IN IF token = NoToken
       THEN HTTPException(401, "Not authenticated", <<>>, D)
       ELSE IF payload.raised # None
       THEN Result(D, payload.raised, None, <<>>)
       ELSE IF payload.invalid \/ ~payload.has_sub
       THEN credentials_exception(<<>>)
       ELSE LET user_id == int(payload.sub)
            IN IF ~user_id.ok
               THEN credentials_exception(<<>>)
               ELSE LET user == UserRepository_find(D,
                                    [id |-> <<user_id.value>>, username |-> None,
                                     email |-> None])
                    IN IF user.outcome = "UserNotFound"
                       THEN credentials_exception(user.calls)
                       ELSE user

\* A route behind ICurrentUser: the service method runs with the resolved
\* user's id, and only when the dependency returned a user.  Protected is
\* the outcome of the method with the calls made on the way.
Protected(current_user, name, r) ==
    Result(r.db, r.outcome, r.ret, current_user.calls \o <<name>> \o r.calls)

task_router_create_task(D, token, t, task_data) ==
    LET current_user == get_current_user(D, token, t)
    IN IF current_user.outcome # "ok" THEN current_user
       ELSE Protected(current_user, "TaskService.create_task_for_user",
                      TaskService_create_task_for_user(D, task_data, current_user.ret.id))

task_router_get_tasks(D, token, t, task_status) ==
    LET current_user == get_current_user(D, token, t)
    IN IF current_user.outcome # "ok" THEN current_user
       ELSE Protected(current_user, "TaskService.get_tasks_for_user",
                      TaskService_get_tasks_for_user(D, current_user.ret.id, task_status))

task_router_get_task_by_id(D, token, t, task_id) ==
    LET current_user == get_current_user(D, token, t)
    IN IF current_user.outcome # "ok" THEN current_user
       ELSE Protected(current_user, "TaskService.get_task_by_id_for_user",
                      TaskService_get_task_by_id_for_user(D, task_id, current_user.ret.id))

task_router_update_task(D, token, t, task_id, task_data) ==
    LET current_user == get_current_user(D, token, t)
    IN IF current_user.outcome # "ok" THEN current_user
       ELSE Protected(current_user, "TaskService.update_task",
                      TaskService_update_task(D, task_id, task_data, current_user.ret.id))

task_router_delete_task(D, token, t, task_id) ==
    LET current_user == get_current_user(D, token, t)
    IN IF current_user.outcome # "ok" THEN current_user
       ELSE Protected(current_user, "TaskService.delete_task",
                      TaskService_delete_task(D, task_id, current_user.ret.id))

\* response_model=UserDTO: the response body holds the fields of UserDTO
UserDTOFields == {"id", "username", "email", "hashed_password"}

response_model_UserDTO(r) ==
    IF r.outcome # "ok" THEN r
    ELSE Result(r.db, "ok", [f \in DOMAIN r.ret \cap UserDTOFields |-> r.ret[f]],
                r.calls)

\* response_model=List[UserDTO]
response_model_List_UserDTO(r) ==
    IF r.outcome # "ok" THEN r
    ELSE Result(r.db, "ok",
                [i \in DOMAIN r.ret |->
                    [f \in DOMAIN r.ret[i] \cap UserDTOFields |-> r.ret[i][f]]],
                r.calls)

user_router_create_user(D, user_data, salt) ==
    response_model_UserDTO(UserService_create_user(D, user_data, salt))

user_router_get_all_users(D, limit, offset, order) ==
    response_model_List_UserDTO(UserService_get_all_users(D, limit, offset, order))

user_router_get_user_by_id(D, user_id) ==
    response_model_UserDTO(UserService_get_user_by_id(D, user_id))

user_router_update_user(D, user_id, update_data) ==
    response_model_UserDTO(UserService_update_user(D, user_id, update_data))

auth_router_register(D, registration_data, salt, t) ==
    AuthService_register(D, registration_data, salt, t)

auth_router_login(D, login_data, t) ==
    LET r == AuthService_login(D, login_data, t)
    IN IF r.outcome = "UserNotFound"
       THEN HTTPException(401, "Incorrect username or password", r.calls, D)
       ELSE r

\* service.refresh_tokens: AuthService defines register and login only, so
\* the attribute lookup raises AttributeError, which the except clause
\* (UserNotFound) does not catch.
auth_router_refresh(D, refresh_token, t) ==
    Result(D, "AttributeError", None, <<>>)

(***************************************************************************)
(* State machine                                                           *)
(***************************************************************************)
access_ttl == access_token_expire_minutes
refresh_ttl == refresh_token_expire_days * MinutesPerDay

UserCreate == [username : Usernames, email : Emails, password : Passwords]
LoginDTO == [username : Usernames, password : Passwords]
UserUpdate == [username : Usernames \cup {None}, email : Emails \cup {None},
               password : Passwords \cup {None}]
\* the patches the update actions are tried with
Patches == {d \in TaskUpdate : d.title \in {None, "Walk dog"}}
\* the accounts of the task specification
Accounts == {[username |-> "alice", email |-> "alice@x.com", password |-> "password123"],
             [username |-> "bob", email |-> "bob@x.com", password |-> "password123"]}
Pagination == {NoInt, <<-1>>, <<0>>, <<1>>}

RequestIds == 1..MaxRequests

\* a request that has not arrived yet
Idle == [pc |-> "idle", op |-> "none", task_id |-> 0, user_id |-> 0,
         dto |-> [title |-> None, description |-> None, status |-> None],
         registration |-> [username |-> None, email |-> None, password |-> None],
         free |-> FALSE, outcome |-> "pending", tokens |-> FALSE]

\* the response carries an access and a refresh token
WellFormedPair(dto) ==
    dto.access_token.segments = 3 /\ dto.refresh_token.segments = 3

\* payloads handed to TokenService directly, besides {"sub": str(user.id)}
TokenData == {[has_sub |-> FALSE, sub |-> <<>>],
              [has_sub |-> TRUE, sub |-> <<"a", "b">>],
              [has_sub |-> TRUE, sub |-> JsonNumber(1)]}

\* what a client without the key can present: no token, a malformed string,
\* a well-formed token signed with another key
Forged == {NoToken, [segments |-> 1]}
          \cup {[segments |-> 3,
                 claims |-> [has_sub |-> TRUE, sub |-> str(i), exp |-> refresh_ttl * (MaxTicks + 1)],
                 signature |-> <<"attacker key",
                                 [has_sub |-> TRUE, sub |-> str(i), exp |-> refresh_ttl * (MaxTicks + 1)]>>]
                : i \in {1}}

Bearers == issued \cup Forged

\* every order the store may return the users in
Orders == {o \in [1..Cardinality(users) -> users] :
              \A i, j \in 1..Cardinality(users) : o[i] = o[j] => i = j}

Init ==
    /\ users = {}
    /\ tasks = {}
    /\ userSeq = 1
    /\ taskSeq = 1
    /\ now = 0
    /\ issued = {}
    /\ res = [op |-> "init", args |-> <<>>, outcome |-> "ok", status |-> 0,
              calls |-> <<>>]
    /\ requests = [r \in RequestIds |-> Idle]

\* res records the last operation: its name, the arguments the properties
\* need, the exception that escaped, the HTTP status (0 below the route
\* layer) and the methods it called.
Apply(op, args, r, status) ==
    /\ users' = r.db.users
    /\ tasks' = r.db.tasks
    /\ userSeq' = r.db.userSeq
    /\ taskSeq' = r.db.taskSeq
    /\ res' = [op |-> op, args |-> args, outcome |-> r.outcome, status |-> status,
               calls |-> r.calls]

\* a service or repository method called directly
Call(op, r) == Apply(op, <<>>, r, 0) /\ UNCHANGED <<now, issued, requests>>

\* a route: the tokens of a TokenDTO it returns are now held by a client
Route(op, args, r, success_status, tokens) ==
    /\ Apply(op, args, r, Response(r, success_status).status_code)
    /\ issued' = issued \cup tokens
    /\ Cardinality(issued') <= MaxIssued
    /\ UNCHANGED <<now, requests>>

Tokens(r) == IF r.outcome = "ok" THEN {r.ret.access_token, r.ret.refresh_token} ELSE {}

\* the fewest clock advances that lead to time t
Elapsed(t) == (t \div refresh_ttl) + ((t % refresh_ttl) \div access_ttl)
                  + ((t % refresh_ttl) % access_ttl)

\* time passes: a minute, an access token's lifetime or a refresh token's
Tick ==
    /\ \E d \in {1, access_ttl, refresh_ttl} :
          /\ Elapsed(now + d) <= MaxTicks
          /\ now' = now + d
    /\ UNCHANGED <<users, tasks, userSeq, taskSeq, issued, res, requests>>

CreateAccessToken ==
    \E data \in TokenData :
        /\ issued' = issued \cup {TokenService_create_access_token(data, now)}
        /\ Cardinality(issued') <= MaxIssued
        /\ res' = [op |-> "TokenService.create_access_token", args |-> <<>>, outcome |-> "ok",
                   status |-> 0, calls |-> <<>>]
        /\ UNCHANGED <<users, tasks, userSeq, taskSeq, now, requests>>

Register ==
    \E dto \in UserCreate, salt \in Salts :
        /\ userSeq <= MaxUserId
        /\ LET r == auth_router_register(DB, dto, salt, now)
           IN Route("auth.register", <<dto>>, r, 200, Tokens(r))

Login ==
    \E dto \in LoginDTO :
        LET r == auth_router_login(DB, dto, now)
        IN Route("auth.login", <<dto.username>>, r, 200, Tokens(r))

Refresh ==
    \E token \in Bearers :
        LET r == auth_router_refresh(DB, token, now)
        IN Route("auth.refresh", <<>>, r, 200, Tokens(r))

CreateUserOf(dtos, salts) ==
    \E dto \in dtos, salt \in salts :
        /\ userSeq <= MaxUserId
        /\ Call("UserService.create_user", UserService_create_user(DB, dto, salt))

CreateUser == CreateUserOf(UserCreate, Salts)

CreateAccount == CreateUserOf(Accounts, {"salt1"})

GetUserById ==
    \E pk \in UserIds :
        Call("UserService.get_user_by_id", UserService_get_user_by_id(DB, pk))

GetAllUsers ==
    \E limit \in Pagination, offset \in Pagination, order \in Orders :
        Call("UserService.get_all_users",
             UserService_get_all_users(DB, limit, offset, order))

UpdateUser ==
    \E pk \in UserIds, dto \in UserUpdate :
        Call("UserService.update_user", UserService_update_user(DB, pk, dto))

DeleteUser ==
    \E pk \in UserIds :
        Call("UserService.delete_user", UserService_delete_user(DB, pk))

CreateTaskForUser ==
    \E dto \in TaskCreate, user_id \in UserIds :
        /\ taskSeq <= MaxTaskId
        /\ Call("TaskService.create_task_for_user",
                TaskService_create_task_for_user(DB, dto, user_id))

GetTasksForUser ==
    \E user_id \in UserIds, status \in TaskStatus \cup {None} :
        Call("TaskService.get_tasks_for_user",
             TaskService_get_tasks_for_user(DB, user_id, status))

GetTaskByIdForUser ==
    \E task_id \in TaskIds, user_id \in UserIds :
        Call("TaskService.get_task_by_id_for_user",
             TaskService_get_task_by_id_for_user(DB, task_id, user_id))

UpdateTask ==
    \E task_id \in TaskIds, dto \in Patches, user_id \in UserIds :
        Call("TaskService.update_task",
             TaskService_update_task(DB, task_id, dto, user_id))

DeleteTask ==
    \E task_id \in TaskIds, user_id \in UserIds :
        Call("TaskService.delete_task",
             TaskService_delete_task(DB, task_id, user_id))

RepoUpdateTask ==
    \E task_id \in TaskIds, user_id \in UserIds, dto \in Patches :
        Call("TaskRepository.update",
             TaskRepository_update(DB, task_id, user_id, dto))

RepoDeleteTask ==
    \E task_id \in TaskIds, user_id \in UserIds :
        Call("TaskRepository.delete",
             TaskRepository_delete(DB, task_id, user_id))

RouteCreateTask ==
    \E token \in Bearers, dto \in {d \in TaskCreate : d.title = "Buy milk" /\ d.description = None} :
        /\ taskSeq <= MaxTaskId
        /\ Route("tasks.create_task", <<>>,
                 task_router_create_task(DB, token, now, dto), 201, {})

RouteGetTasks ==
    \E token \in Bearers, status \in TaskStatus \cup {None} :
        Route("tasks.get_tasks", <<>>,
              task_router_get_tasks(DB, token, now, status), 200, {})

RouteGetTaskById ==
    \E token \in Bearers, task_id \in TaskIds :
        Route("tasks.get_task_by_id", <<>>,
              task_router_get_task_by_id(DB, token, now, task_id), 200, {})

RouteUpdateTask ==
    \E token \in Bearers, task_id \in TaskIds,
       dto \in {d \in Patches : d.title # None /\ d.description = None} :
        Route("tasks.update_task", <<>>,
              task_router_update_task(DB, token, now, task_id, dto), 200, {})

RouteDeleteTask ==
    \E token \in Bearers, task_id \in TaskIds :
        Route("tasks.delete_task", <<>>,
              task_router_delete_task(DB, token, now, task_id), 204, {})

\* Task specification: two accounts, the task service, and the task
\* repository's update and delete called with the arity they declare.
NextTask ==
    \/ CreateAccount
    \/ CreateTaskForUser
    \/ GetTasksForUser
    \/ GetTaskByIdForUser
    \/ UpdateTask
    \/ DeleteTask
    \/ RepoUpdateTask
    \/ RepoDeleteTask

SpecTask == Init /\ [][NextTask]_vars

\* User specification: the user service on its own.
NextUser ==
    \/ CreateUser
    \/ GetUserById
    \/ GetAllUsers
    \/ UpdateUser
    \/ DeleteUser

SpecUser == Init /\ [][NextUser]_vars

\* Auth specification: registration, login and refresh at one instant.
NextAuth ==
    \/ CreateUser
    \/ Register
    \/ Login
    \/ Refresh
    \/ DeleteUser
    \/ UpdateUser

SpecAuth == Init /\ [][NextAuth]_vars

\* Token specification: two accounts, the clock, tokens minted with the
\* server's key, and the task routes behind the bearer dependency.
NextToken ==
    \/ CreateAccount
    \/ Login
    \/ Tick
    \/ CreateAccessToken
    \/ RouteCreateTask
    \/ RouteGetTasks
    \/ RouteGetTaskById
    \/ RouteUpdateTask
    \/ RouteDeleteTask

SpecToken == Init /\ [][NextToken]_vars

(***************************************************************************)
(* Concurrent requests.  A request is one coroutine on its own session; it  *)
(* yields at every await, so its database statements interleave with those  *)
(* of the other requests.  requests[r] holds the position of request r.     *)
(***************************************************************************)
\* the patches and registrations the concurrent requests carry
RacePatches == {[title |-> "Walk dog", description |-> None, status |-> DONE],
                [title |-> "Buy milk", description |-> None, status |-> IN_PROGRESS]}
RaceRegistrations == {d \in UserCreate : d.password = "password123"}

AllIdle == \A r \in RequestIds : requests[r].pc = "idle"

\* a request moves; the database becomes db
Step(r, request, db) ==
    /\ requests' = [requests EXCEPT ![r] = request]
    /\ users' = db.users
    /\ tasks' = db.tasks
    /\ userSeq' = db.userSeq
    /\ taskSeq' = db.taskSeq
    /\ UNCHANGED <<now, issued, res>>

\* accounts and tasks stored before the requests arrive
RaceSetupAccount == AllIdle /\ CreateAccount

RaceSetupTask ==
    /\ AllIdle
    /\ taskSeq <= MaxTaskId
    /\ \E user_id \in UserIds :
          Call("TaskService.create_task_for_user",
               TaskService_create_task_for_user(DB,
                   [title |-> "Buy milk", description |-> None], user_id))

\* PUT /tasks/{task_id} and DELETE /tasks/{task_id} arrive for a stored task
\* on behalf of a stored user
BeginUpdateTask ==
    \E r \in RequestIds, t \in tasks, u \in users, dto \in RacePatches :
        /\ requests[r].pc = "idle"
        /\ Step(r, [requests[r] EXCEPT !.pc = "verify", !.op = "update_task",
                                       !.task_id = t.id, !.user_id = u.id,
                                       !.dto = dto], DB)

BeginDeleteTask ==
    \E r \in RequestIds, t \in tasks, u \in users :
        /\ requests[r].pc = "idle"
        /\ Step(r, [requests[r] EXCEPT !.pc = "verify", !.op = "delete_task",
                                       !.task_id = t.id, !.user_id = u.id], DB)

\* await self._get_and_verify(task_id, user_id)
RaceVerify ==
    \E r \in RequestIds :
        /\ requests[r].pc = "verify"
        /\ LET v == TaskService_get_and_verify(DB, requests[r].task_id,
                                               requests[r].user_id)
           IN Step(r, IF v.outcome = "ok"
                      THEN [requests[r] EXCEPT !.pc = "write"]
                      ELSE [requests[r] EXCEPT !.pc = "done", !.outcome = v.outcome],
                   v.db)

\* await self.repo.update(task_id, task_update)
RaceUpdateWrite ==
    \E r \in RequestIds :
        /\ requests[r].pc = "write"
        /\ requests[r].op = "update_task"
        /\ LET w == TaskService_update_task_repo_call(DB, requests[r].task_id,
                                                      requests[r].dto)
           IN Step(r, [requests[r] EXCEPT !.pc = "done", !.outcome = w.outcome], w.db)

\* await self.repo.delete(task_id)
RaceDeleteWrite ==
    \E r \in RequestIds :
        /\ requests[r].pc = "write"
        /\ requests[r].op = "delete_task"
        /\ LET w == TaskService_delete_task_repo_call(DB, requests[r].task_id)
           IN Step(r, [requests[r] EXCEPT !.pc = "done", !.outcome = w.outcome], w.db)

\* POST /auth/register arrives; free: neither its username nor its email is
\* stored at that moment
BeginRegister ==
    \E r \in RequestIds, dto \in RaceRegistrations :
        /\ requests[r].pc = "idle"
        /\ Step(r, [requests[r] EXCEPT
                        !.pc = "create", !.op = "register", !.registration = dto,
                        !.free = \A u \in users : /\ u.username # dto.username
                                                  /\ u.email # dto.email], DB)

\* new_user = await self.user_service.create_user(user_create_dto)
RaceRegisterCreate ==
    \E r \in RequestIds :
        /\ requests[r].pc = "create"
        /\ userSeq <= MaxUserId
        /\ LET c == UserService_create_user(DB, requests[r].registration, "salt1")
           IN Step(r, IF c.outcome = "ok"
                      THEN [requests[r] EXCEPT !.pc = "tokens", !.user_id = c.ret.id]
                      ELSE [requests[r] EXCEPT !.pc = "done", !.outcome = c.outcome],
                   c.db)

\* the two tokens are made and the TokenDTO is returned
RaceRegisterTokens ==
    \E r \in RequestIds :
        /\ requests[r].pc = "tokens"
        /\ LET dto == TokenDTO(
                   TokenService_create_access_token(Sub(requests[r].user_id), now),
                   TokenService_create_refresh_token(Sub(requests[r].user_id), now))
           IN Step(r, [requests[r] EXCEPT
                          !.pc = "done", !.outcome = "ok",
                          !.tokens = WellFormedPair(dto)], DB)

NextRace ==
    \/ RaceSetupAccount
    \/ RaceSetupTask
    \/ BeginUpdateTask
    \/ BeginDeleteTask
    \/ RaceVerify
    \/ RaceUpdateWrite
    \/ RaceDeleteWrite
    \/ BeginRegister
    \/ RaceRegisterCreate
    \/ RaceRegisterTokens

SpecRace == Init /\ [][NextRace]_vars

(***************************************************************************)
(* Properties of the task service (SpecTask)                               *)
(***************************************************************************)
Owned(user_id) == {t \in tasks : t.owner_id = user_id}

\* C1: for a stored task and a user B other than its owner,
\* get_task_by_id_for_user, update_task and delete_task called by B raise
\* TaskAccessForbidden and leave the database (the task's title,
\* description, status, owner_id and existence) as it was.
C1_NonOwnerForbidden ==
    \A t \in tasks : \A B \in UserIds :
        B # t.owner_id =>
            LET g == TaskService_get_task_by_id_for_user(DB, t.id, B)
                d == TaskService_delete_task(DB, t.id, B)
            IN /\ g.outcome = "TaskAccessForbidden" /\ g.db = DB
               /\ d.outcome = "TaskAccessForbidden" /\ d.db = DB
               /\ \A dto \in TaskUpdate :
                     LET u == TaskService_update_task(DB, t.id, dto, B)
                     IN u.outcome = "TaskAccessForbidden" /\ u.db = DB

\* a non-owner's update_task has just been refused while both accounts
\* exist and the task is stored
C1_Witness ==
    /\ res.op = "TaskService.update_task"
    /\ res.outcome = "TaskAccessForbidden"
    /\ \E t \in tasks : \E u \in users : u.id # t.owner_id

\* C5: every task create_task_for_user returns has status pending, the
\* caller as owner, the title and description of the dto and a fresh id,
\* and is stored as returned, whatever tasks and users exist.
C5_CreatedTaskPending ==
    \A dto \in TaskCreate : \A user_id \in UserIds :
        LET r == TaskService_create_task_for_user(DB, dto, user_id)
        IN r.outcome = "ok" =>
              /\ r.ret.status = PENDING
              /\ r.ret.owner_id = user_id
              /\ r.ret.title = dto.title
              /\ r.ret.description = dto.description
              /\ r.ret.id \in Nat
              /\ \A t \in tasks : t.id # r.ret.id
              /\ r.db.tasks = tasks \cup {r.ret}

\* a task has just been created beside a task that is no longer pending
C5_Witness ==
    /\ res.op = "TaskService.create_task_for_user"
    /\ res.outcome = "ok"
    /\ \E t \in tasks : t.status # PENDING
    /\ \E t \in tasks : t.status = PENDING /\ t.description # None

\* C6: with a status filter, get_tasks_for_user returns all and only the
\* tasks of user_id whose status is the filter, and the empty list without
\* error when there is none.
C6_StatusFilterExact ==
    \A user_id \in UserIds : \A status \in TaskStatus :
        LET r == TaskService_get_tasks_for_user(DB, user_id, status)
        IN /\ r.outcome = "ok"
           /\ \A x \in r.ret : x.owner_id = user_id /\ x.status = status /\ x \in tasks
           /\ \A t \in Owned(user_id) : t.status = status => t \in r.ret
           /\ ((\A t \in Owned(user_id) : t.status # status) => r.ret = {})

\* the list has just been read while one user owns tasks of two statuses
C6_Witness ==
    /\ res.op = "TaskService.get_tasks_for_user"
    /\ \E t1, t2 \in tasks : t1.owner_id = t2.owner_id /\ t1.status # t2.status

\* C7: in every state reached by creations, updates and deletions,
\* get_tasks_for_user without a filter returns all and only the tasks
\* stored with owner_id = user_id.
C7_ListOwnTasksOnly ==
    \A user_id \in UserIds :
        LET r == TaskService_get_tasks_for_user(DB, user_id, None)
        IN /\ r.outcome = "ok"
           /\ r.ret = Owned(user_id)
           /\ \A x \in r.ret : \A t \in tasks : t.owner_id # user_id => x.id # t.id

\* the list has just been read while two users own tasks, one of them updated
C7_Witness ==
    /\ res.op = "TaskService.get_tasks_for_user"
    /\ \E t1, t2 \in tasks : t1.owner_id # t2.owner_id /\ t1.status # PENDING

(***************************************************************************)
(* Properties of the user service (SpecUser)                               *)
(***************************************************************************)
\* C9: get_all_users with a negative limit or a negative offset raises
\* PaginationError, calls no repository method and leaves the database alone.
C9_NegativePaginationRejected ==
    \A limit \in Pagination : \A offset \in Pagination : \A order \in Orders :
        ((limit # NoInt /\ limit[1] < 0) \/ (offset # NoInt /\ offset[1] < 0)) =>
            LET r == UserService_get_all_users(DB, limit, offset, order)
            IN /\ r.outcome = "PaginationError"
               /\ r.calls = <<>>
               /\ r.db = DB
               /\ Response(r, 200).status_code = 400

\* the listing has just been refused while users are stored
C9_Witness ==
    /\ res.op = "UserService.get_all_users"
    /\ res.outcome = "PaginationError"
    /\ res.calls = <<>>
    /\ users # {}

(***************************************************************************)
(* Properties of registration and login (SpecAuth)                         *)
(***************************************************************************)
WellFormed(token) == token.segments = 3

\* verify_token accepts the token and its subject reads back as user_id
VerifiesAs(token, user_id, t) ==
    LET payload == TokenService_verify_token(token, t)
    IN /\ ~payload.invalid
       /\ payload.has_sub
       /\ payload.sub = str(user_id)
       /\ int(payload.sub) = [ok |-> TRUE, value |-> user_id]

GoodPair(r, user_id, t) ==
    /\ r.outcome = "ok"
    /\ WellFormed(r.ret.access_token)
    /\ WellFormed(r.ret.refresh_token)
    /\ r.ret.access_token # r.ret.refresh_token
    /\ VerifiesAs(r.ret.access_token, user_id, t)
    /\ VerifiesAs(r.ret.refresh_token, user_id, t)

\* C2: for a username and an email not stored yet, register succeeds and
\* login with the same username and password then succeeds; each returns an
\* access and a refresh token that differ and that verify_token maps to the
\* new user's id.
C2_RegisterThenLogin ==
    \A dto \in UserCreate : \A salt \in Salts :
        (\A u \in users : u.username # dto.username /\ u.email # dto.email) =>
            LET r == auth_router_register(DB, dto, salt, now)
                l == auth_router_login(r.db, [username |-> dto.username,
                                              password |-> dto.password], now)
            IN /\ r.outcome = "ok"
               /\ \E u \in r.db.users \ users :
                     /\ u.username = dto.username
                     /\ GoodPair(r, u.id, now)
                     /\ GoodPair(l, u.id, now)

\* a login has just succeeded for a registered user
C2_Witness ==
    /\ res.op = "auth.login"
    /\ res.status = 200
    /\ \E u \in users : \E token \in issued :
          u.username = res.args[1] /\ VerifiesAs(token, u.id, now)

\* C3: register with a stored username and another email raises
\* UserAlreadyExists (answered 409), returns no tokens and leaves the users
\* table as it was.
C3_DuplicateUsernameRejected ==
    \A dto \in UserCreate : \A salt \in Salts :
        (\E u \in users : u.username = dto.username /\ u.email # dto.email) =>
            LET r == auth_router_register(DB, dto, salt, now)
            IN /\ r.outcome = "UserAlreadyExists"
               /\ r.outcome \in AlreadyExists
               /\ Response(r, 200).status_code = 409
               /\ r.ret = None
               /\ r.db.users = users

\* a registration has just been refused for its username alone
C3_Witness ==
    /\ res.op = "auth.register"
    /\ res.outcome = "UserAlreadyExists"
    /\ \E u \in users : u.username = res.args[1].username
    /\ \A u \in users : u.email # res.args[1].email

\* C4: login with a stored username and a wrong password is answered exactly
\* as login with a username that is not stored: same exception, same status,
\* same detail.
C4_LoginFailuresIndistinguishable ==
    \A known \in LoginDTO : \A unknown \in LoginDTO :
        (/\ \E u \in users :
               /\ u.username = known.username
               /\ ~PasswordService_verify_password(known.password, u.hashed_password)
         /\ \A u \in users : u.username # unknown.username) =>
            LET a == auth_router_login(DB, known, now)
                b == auth_router_login(DB, unknown, now)
            IN /\ a.outcome = "HTTPException"
               /\ b.outcome = "HTTPException"
               /\ a.ret = b.ret
               /\ Response(a, 200) = Response(b, 200)
               /\ Response(a, 200).status_code = 401
               /\ a.db = DB /\ b.db = DB

\* a login with a stored username has just been refused while another
\* username is not stored
C4_Witness ==
    /\ res.op = "auth.login"
    /\ res.status = 401
    /\ \E u \in users : u.username = res.args[1]
    /\ \E n \in Usernames : \A u \in users : u.username # n

\* C10: refresh with a refresh token that verifies and whose subject is a
\* stored user returns a fresh access/refresh pair for that user, and ends
\* in 401 otherwise.
C10_RefreshIssuesFreshPair ==
    \A token \in issued :
        LET payload == TokenService_verify_token(token, now)
            r == auth_router_refresh(DB, token, now)
        IN IF /\ ~payload.invalid /\ payload.has_sub /\ int(payload.sub).ok
              /\ \E u \in users : u.id = int(payload.sub).value
           THEN GoodPair(r, int(payload.sub).value, now)
           ELSE Response(r, 200).status_code = 401

\* token is a refresh token the service issued to a stored user at or
\* before time t
IsRefreshToken(token, t) ==
    /\ token.segments = 3
    /\ token.claims.exp - refresh_ttl \in 0..t
    /\ \E u \in users :
          token = TokenService_create_refresh_token(Sub(u.id),
                                                    token.claims.exp - refresh_ttl)

\* C11: a refresh token can be replayed: a refresh with an unexpired refresh
\* token succeeds, and a second refresh with the same token succeeds again.
C11_RefreshReplayable ==
    \A token \in issued :
        (IsRefreshToken(token, now) /\ ~TokenService_verify_token(token, now).invalid) =>
            LET first == auth_router_refresh(DB, token, now)
                again == auth_router_refresh(first.db, token, now)
            IN first.outcome = "ok" /\ again.outcome = "ok"

(***************************************************************************)
(* Properties of the bearer dependency (SpecToken)                         *)
(***************************************************************************)
TaskServiceMethods ==
    {"TaskService.create_task_for_user", "TaskService.get_tasks_for_user",
     "TaskService.get_task_by_id_for_user", "TaskService.update_task",
     "TaskService.delete_task"}

\* no token, a token verify_token rejects, no subject, or a subject that is
\* no integer
Unauthenticated(token, t) ==
    \/ token = NoToken
    \/ LET payload == TokenService_verify_token(token, t)
       IN \/ payload.invalid
          \/ ~payload.has_sub
          \/ ~int(payload.sub).ok

\* answered 401, no task service method called, nothing written
Denied(r, success_status) ==
    /\ Response(r, success_status).status_code = 401
    /\ \A i \in DOMAIN r.calls : r.calls[i] \notin TaskServiceMethods
    /\ r.db = DB

\* C8: a request to a task route without a valid token is answered 401 and
\* runs no TaskService method.
C8_UnauthenticatedDenied ==
    \A token \in Bearers :
        Unauthenticated(token, now) =>
            /\ \A dto \in TaskCreate :
                  Denied(task_router_create_task(DB, token, now, dto), 201)
            /\ \A status \in TaskStatus \cup {None} :
                  Denied(task_router_get_tasks(DB, token, now, status), 200)
            /\ \A task_id \in TaskIds :
                  /\ Denied(task_router_get_task_by_id(DB, token, now, task_id), 200)
                  /\ Denied(task_router_delete_task(DB, token, now, task_id), 204)
                  /\ \A dto \in TaskUpdate :
                        Denied(task_router_update_task(DB, token, now, task_id, dto), 200)

\* the task list has just been refused while users are stored and a client
\* holds a token that verifies but names no user
C8_Witness ==
    /\ res.op = "tasks.get_tasks"
    /\ res.status = 401
    /\ users # {}
    /\ \E token \in issued :
          /\ ~TokenService_verify_token(token, now).invalid
          /\ Unauthenticated(token, now)

\* verify_token returned a payload
Accepted(token, t) ==
    LET payload == TokenService_verify_token(token, t)
    IN payload.raised = None /\ ~payload.invalid

\* the claims of the token fit TokenPayloadDTO (sub: str | None)
FitsPayload(token) == token.claims.has_sub => IsStr(token.claims.sub)

\* C12: a token the service signed, with a payload of the payload type, is
\* accepted by verify_token at every time up to its exp and rejected at every
\* later time, whatever has happened in between; once rejected it is
\* rejected in every later state.
C12_TokenLifecycle ==
    /\ [](\A token \in issued :
             FitsPayload(token) =>
                 /\ (now < token.claims.exp => Accepted(token, now))
                 /\ (now > token.claims.exp => ~Accepted(token, now)))
    /\ [][\A token \in issued :
             ~Accepted(token, now) => ~Accepted(token, now')]_vars

\* an access token has expired while the refresh token of the same login is
\* still accepted
C12_Witness ==
    /\ users # {}
    /\ \E a \in issued : \E b \in issued :
          /\ FitsPayload(a) /\ now > a.claims.exp /\ ~Accepted(a, now)
          /\ FitsPayload(b) /\ now < b.claims.exp /\ Accepted(b, now)

\* C13: verify_token lets no exception out, and returns None for a malformed
\* string, a signature made with another key, an exp in the past and a
\* signed payload whose sub is no string.
C13_VerifyTokenNeverRaises ==
    \A token \in Bearers :
        LET payload == TokenService_verify_token(token, now)
        IN /\ payload.raised = None
           /\ (\/ token.segments # 3
               \/ token.signature # <<secret_key, token.claims>>
               \/ token.claims.exp < now
               \/ ~FitsPayload(token)) => payload.invalid

\* a route has just refused a bearer while a client holds a signed,
\* unexpired token whose sub is a number
C13_Witness ==
    /\ res.op = "tasks.get_tasks"
    /\ res.status = 401
    /\ \E token \in issued :
          /\ token.signature = <<secret_key, token.claims>>
          /\ token.claims.exp >= now
          /\ ~FitsPayload(token)

\* C14: a refresh token presented as the bearer of a task route does not
\* authenticate: the dependency resolves no user and the route answers 401.
C14_RefreshTokenNotBearer ==
    \A token \in issued :
        IsRefreshToken(token, now) =>
            /\ get_current_user(DB, token, now).outcome # "ok"
            /\ Response(task_router_get_tasks(DB, token, now, None), 200).status_code = 401

(***************************************************************************)
(* The bearer of a deleted user (SpecAuth)                                 *)
(***************************************************************************)
\* verify_token accepts the token and its sub is the id of no stored user
NamesVanishedUser(token, t) ==
    LET payload == TokenService_verify_token(token, t)
    IN /\ Accepted(token, t)
       /\ payload.has_sub
       /\ int(payload.sub).ok
       /\ \A u \in users : u.id # int(payload.sub).value

\* C15: a signed, unexpired token whose subject is no stored user gets from
\* get_current_user exactly what a token verify_token rejects gets: 401 with
\* the same detail; every task route answers 401, never 404, and runs no
\* TaskService method.
C15_VanishedUserUnauthorized ==
    \A token \in issued :
        NamesVanishedUser(token, now) =>
            LET r == get_current_user(DB, token, now)
                rejected == get_current_user(DB, [segments |-> 1], now)
            IN /\ r.outcome = rejected.outcome
               /\ r.ret = rejected.ret
               /\ Response(r, 200) = Response(rejected, 200)
               /\ Response(r, 200).status_code = 401
               /\ Denied(task_router_get_tasks(DB, token, now, None), 200)
               /\ \A dto \in TaskCreate :
                     Denied(task_router_create_task(DB, token, now, dto), 201)
               /\ \A task_id \in TaskIds :
                     /\ Denied(task_router_get_task_by_id(DB, token, now, task_id), 200)
                     /\ Denied(task_router_delete_task(DB, token, now, task_id), 204)
                     /\ \A dto \in Patches :
                           Denied(task_router_update_task(DB, token, now, task_id, dto), 200)

\* a user has just been deleted while a client holds an accepted token
\* issued to that user
C15_Witness ==
    /\ res.op = "UserService.delete_user"
    /\ res.outcome = "ok"
    /\ \E token \in issued : NamesVanishedUser(token, now)

(***************************************************************************)
(* Deleting users, updating and deleting tasks (SpecTask)                  *)
(***************************************************************************)
\* C16: delete_user of a stored user succeeds, also when the user owns
\* tasks; afterwards no stored task has the deleted id as owner_id and every
\* stored task's owner is a stored user.
C16_DeleteUserCascades ==
    \A u \in users :
        LET r == UserService_delete_user(DB, u.id)
        IN /\ r.outcome = "ok"
           /\ \A t \in r.db.tasks :
                 /\ t.owner_id # u.id
                 /\ \E o \in r.db.users : o.id = t.owner_id

\* C17: an update of a task by its owner leaves every field of title,
\* description and status that the patch does not provide as it was.
C17_AbsentFieldsPreserved ==
    \A t \in tasks : \A dto \in TaskUpdate :
        LET r == TaskRepository_update(DB, t.id, t.owner_id, dto)
        IN \A after \in {x \in r.db.tasks : x.id = t.id} :
              /\ (dto.title = None => after.title = t.title)
              /\ (dto.description = None => after.description = t.description)
              /\ (dto.status = None => after.status = t.status)

\* C18: update_task by the owner of a stored task raises nothing and
\* returns the task with its id and owner_id and with every provided field
\* set to the provided value.
C18_OwnerUpdateSucceeds ==
    \A t \in tasks : \A dto \in TaskUpdate :
        LET u == TaskService_update_task(DB, t.id, dto, t.owner_id)
        IN /\ u.outcome = "ok"
           /\ u.ret.id = t.id
           /\ u.ret.owner_id = t.owner_id
           /\ (dto.title # None => u.ret.title = dto.title)
           /\ (dto.description # None => u.ret.description = dto.description)
           /\ (dto.status # None => u.ret.status = dto.status)

\* C19: delete_task by the owner of a stored task raises nothing; afterwards
\* get_task_by_id_for_user on its id raises TaskNotFound for every requester
\* and the owner's list does not hold the task.
C19_OwnerDeleteRemoves ==
    \A t \in tasks :
        LET d == TaskService_delete_task(DB, t.id, t.owner_id)
        IN /\ d.outcome = "ok"
           /\ \A B \in UserIds :
                 TaskService_get_task_by_id_for_user(d.db, t.id, B).outcome = "TaskNotFound"
           /\ \A x \in TaskService_get_tasks_for_user(d.db, t.owner_id, None).ret :
                 x.id # t.id

\* C20: get, update and delete on a task id that is not stored raise
\* TaskNotFound (404) for every requester, and on a stored task of another
\* user raise TaskAccessForbidden (403); both come after the fetch by id and
\* leave the database as it was.
C20_NotFoundBeforeForbidden ==
    \A task_id \in TaskIds : \A B \in UserIds :
        LET stored == {t \in tasks : t.id = task_id}
            expected == IF stored = {} THEN "TaskNotFound" ELSE "TaskAccessForbidden"
            Fails(r) == /\ r.outcome = expected
                        /\ Response(r, 200).status_code =
                               (IF stored = {} THEN 404 ELSE 403)
                        /\ r.calls = <<"TaskRepository.get_by_id">>
                        /\ r.db = DB
        IN (stored = {} \/ \A t \in stored : t.owner_id # B) =>
              /\ Fails(TaskService_get_task_by_id_for_user(DB, task_id, B))
              /\ Fails(TaskService_delete_task(DB, task_id, B))
              /\ \A dto \in TaskUpdate :
                    Fails(TaskService_update_task(DB, task_id, dto, B))

\* a lookup of an id that is not stored has just failed while another
\* user's task is stored
C20_Witness ==
    /\ res.op = "TaskService.get_task_by_id_for_user"
    /\ res.outcome = "TaskNotFound"
    /\ \E task_id \in TaskIds : \A t \in tasks : t.id # task_id
    /\ \E t \in tasks : \E u \in users : u.id # t.owner_id

(***************************************************************************)
(* The users table (SpecAuth: creations, registrations, updates, deletes)  *)
(***************************************************************************)
\* C21: no two stored users share a username, an email or an id.
C21_UsersUnique ==
    \A u \in users : \A v \in users :
        u # v => /\ u.username # v.username
                 /\ u.email # v.email
                 /\ u.id # v.id

\* an update that would have given one user the username or the email of
\* another has just been refused
C21_Witness ==
    /\ res.op = "UserService.update_user"
    /\ res.outcome = "IntegrityError"
    /\ Cardinality(users) = 2

(***************************************************************************)
(* User updates and user responses (SpecUser)                              *)
(***************************************************************************)
\* C22: no raw storage exception leaves the user repository: create_user,
\* and update_user with a username or an email, end in success or in a typed
\* NotFound / AlreadyExists exception.
C22_ConstraintViolationsTyped ==
    LET Typed(r) == r.outcome \in {"ok"} \cup NotFound \cup AlreadyExists
    IN /\ \A dto \in UserCreate : \A salt \in Salts :
             Typed(UserService_create_user(DB, dto, salt))
       /\ \A u \in users : \A dto \in UserUpdate :
             (dto.password = None /\ (dto.username # None \/ dto.email # None)) =>
                 Typed(UserService_update_user(DB, u.id, dto))

\* C23: no response of the user endpoints create, list, get-by-id and update
\* holds the stored password digest.
C23_NoDigestInResponses ==
    LET Clean(r) == r.outcome = "ok" => "hashed_password" \notin DOMAIN r.ret
        CleanList(r) == r.outcome = "ok" =>
                            \A i \in DOMAIN r.ret : "hashed_password" \notin DOMAIN r.ret[i]
    IN /\ \A dto \in UserCreate : \A salt \in Salts :
             Clean(user_router_create_user(DB, dto, salt))
       /\ \A pk \in UserIds :
             /\ Clean(user_router_get_user_by_id(DB, pk))
             /\ \A dto \in UserUpdate : Clean(user_router_update_user(DB, pk, dto))
       /\ \A order \in Orders :
             CleanList(user_router_get_all_users(DB, <<1>>, <<0>>, order))

\* C26: update_user changes only what the patch provides: a username or
\* email the patch leaves out keeps its value, the user keeps its id, every
\* other user is untouched; for an id that is not stored the call raises
\* UserNotFound and changes no user.
C26_UserPatchFrame ==
    \A pk \in UserIds : \A dto \in UserUpdate :
        LET r == UserService_update_user(DB, pk, dto)
            before == {u \in users : u.id = pk}
            after == {u \in r.db.users : u.id = pk}
        IN IF before = {}
           THEN r.outcome = "UserNotFound" /\ r.db.users = users
           ELSE /\ r.db.users \ after = users \ before
                /\ Cardinality(after) = 1
                /\ \A u \in before : \A v \in after :
                      /\ (dto.username = None => v.username = u.username)
                      /\ (dto.email = None => v.email = u.email)

\* C27: update_user with a new password raises nothing, stores a digest of
\* the new password and not the password itself, and afterwards login
\* succeeds with the new password and fails with the old one.
C27_PasswordReplaced ==
    \A u \in users : \A new \in Passwords : \A old \in Passwords :
        (old # new /\ PasswordService_verify_password(old, u.hashed_password)) =>
            LET r == UserService_update_user(DB, u.id,
                         [username |-> None, email |-> None, password |-> new])
            IN /\ r.outcome = "ok"
               /\ \A v \in r.db.users :
                     v.id = u.id =>
                         /\ v.hashed_password # new
                         /\ PasswordService_verify_password(new, v.hashed_password)
               /\ AuthService_login(r.db, [username |-> u.username, password |-> new],
                                    now).outcome = "ok"
               /\ AuthService_login(r.db, [username |-> u.username, password |-> old],
                                    now).outcome # "ok"

(***************************************************************************)
(* Identity and frame of the tasks (SpecTask)                              *)
(***************************************************************************)
\* C28: a stored task keeps its id and its owner_id: ids are unique and come
\* from a sequence that never goes back, and no step changes the owner_id of
\* a stored id or stores a new task under an id that was handed out before.
C28_TaskIdentityFixed ==
    /\ [](\A t \in tasks :
             /\ t.id < taskSeq
             /\ \A o \in tasks : o.id = t.id => o = t)
    /\ [][/\ taskSeq' >= taskSeq
           /\ \A t \in tasks' :
                 IF \E o \in tasks : o.id = t.id
                 THEN \A o \in tasks : o.id = t.id => o.owner_id = t.owner_id
                 ELSE t.id >= taskSeq]_vars

\* a stored task has just been updated in place while both users exist
C28_Witness ==
    /\ res.op = "TaskRepository.update"
    /\ res.outcome = "ok"
    /\ tasks # {}
    /\ Cardinality(users) = 2

\* C30: an operation changes at most the task it targets.  login, the two
\* reads and every call that raises leave users and tasks as they are
\* (verify_token does not touch the database at all); create_task_for_user
\* adds one task and changes no stored one; update and delete, through the
\* service or the repository, leave every other task and every user alone.
C30_TaskFrame ==
    LET Same(r) == r.db.users = users /\ r.db.tasks = tasks
        Others(S, task_id) == {t \in S : t.id # task_id}
        Targets(r, task_id) ==
            /\ r.db.users = users
            /\ Others(r.db.tasks, task_id) = Others(tasks, task_id)
            /\ (r.outcome # "ok" => Same(r))
    IN /\ \A dto \in LoginDTO : Same(AuthService_login(DB, dto, now))
       /\ \A user_id \in UserIds :
             /\ \A status \in TaskStatus \cup {None} :
                   Same(TaskService_get_tasks_for_user(DB, user_id, status))
             /\ \A dto \in TaskCreate :
                   LET c == TaskService_create_task_for_user(DB, dto, user_id)
                   IN IF c.outcome = "ok"
                      THEN /\ c.db.users = users
                           /\ tasks \subseteq c.db.tasks
                           /\ Cardinality(c.db.tasks \ tasks) = 1
                      ELSE Same(c)
             /\ \A task_id \in TaskIds :
                   /\ Same(TaskService_get_task_by_id_for_user(DB, task_id, user_id))
                   /\ Targets(TaskService_delete_task(DB, task_id, user_id), task_id)
                   /\ Targets(TaskRepository_delete(DB, task_id, user_id), task_id)
                   /\ \A dto \in TaskUpdate :
                         /\ Targets(TaskService_update_task(DB, task_id, dto, user_id),
                                    task_id)
                         /\ Targets(TaskRepository_update(DB, task_id, user_id, dto),
                                    task_id)

\* one of two created tasks has just been deleted and the other is stored
C30_Witness ==
    /\ res.op = "TaskRepository.delete"
    /\ taskSeq = 3
    /\ Cardinality(tasks) = 1

(***************************************************************************)
(* Concurrent requests (SpecRace)                                          *)
(***************************************************************************)
\* requests a and b have both finished, are of the given kinds and target
\* the same task on behalf of the same user, who passed the ownership check
SameTaskByOwner(a, b, op_a, op_b) ==
    /\ a # b
    /\ requests[a].op = op_a /\ requests[a].pc = "done"
    /\ requests[b].op = op_b /\ requests[b].pc = "done"
    /\ requests[a].task_id = requests[b].task_id
    /\ requests[a].user_id = requests[b].user_id
    /\ requests[a].outcome # "TaskAccessForbidden"
    /\ requests[b].outcome # "TaskAccessForbidden"

\* C24: two concurrent updates of one task by its owner both finish without
\* error, and the stored task holds the values of one of the two patches
\* under its old id and owner_id.
C24_ConcurrentUpdatesLastWriteWins ==
    \A a \in RequestIds : \A b \in RequestIds :
        SameTaskByOwner(a, b, "update_task", "update_task") =>
            /\ requests[a].outcome = "ok"
            /\ requests[b].outcome = "ok"
            /\ \E t \in tasks : \E w \in {a, b} :
                  /\ t.id = requests[a].task_id
                  /\ t.owner_id = requests[a].user_id
                  /\ t.title = requests[w].dto.title
                  /\ t.status = requests[w].dto.status

\* requests a and b are finished registrations that found their username
\* and email free when they arrived and that share a username or an email;
\* no other registration is under way
RacingRegistrations(a, b) ==
    /\ a # b
    /\ \A r \in {a, b} : /\ requests[r].op = "register"
                          /\ requests[r].pc = "done"
                          /\ requests[r].free
    /\ \A r \in RequestIds \ {a, b} : requests[r].op # "register"
    /\ \/ requests[a].registration.username = requests[b].registration.username
       \/ requests[a].registration.email = requests[b].registration.email

\* C25: of two concurrent registrations with the same username or the same
\* email, one creates the user and gets tokens, the other raises
\* UserAlreadyExists and gets none, and one user holds the shared username
\* or email afterwards.
C25_ConcurrentRegisterOneWins ==
    \A a \in RequestIds : \A b \in RequestIds :
        RacingRegistrations(a, b) =>
            LET A == requests[a].registration
                B == requests[b].registration
                won == {r \in {a, b} : requests[r].outcome = "ok" /\ requests[r].tokens}
                lost == {r \in {a, b} : /\ requests[r].outcome = "UserAlreadyExists"
                                        /\ ~requests[r].tokens}
            IN /\ Cardinality(won) = 1
               /\ Cardinality(lost) = 1
               /\ (A.username = B.username =>
                      Cardinality({u \in users : u.username = A.username}) = 1)
               /\ (A.email = B.email =>
                      Cardinality({u \in users : u.email = A.email}) = 1)

\* two registrations that arrived while their shared username was free have
\* both finished
C25_Witness ==
    \E a \in RequestIds : \E b \in RequestIds :
        /\ RacingRegistrations(a, b)
        /\ requests[a].registration.username = requests[b].registration.username
        /\ requests[a].registration.email # requests[b].registration.email
        /\ requests[b].outcome = "UserAlreadyExists"

====
